---------------------------- MODULE Spec2Model ----------------------------
(***************************************************************************)
(* Model of quiche's packet framing layer (src/packet.rs): the Header      *)
(* parser and serializer, the packet-number codec, header protection       *)
(* (decrypt_pkt_num), version negotiation and the PktNumSpace aggregate.   *)
(*                                                                         *)
(* Integers are TLC integers (32-bit signed).  A u32 that may exceed 2^31  *)
(* (the protocol version) is kept as two 16-bit limbs [hi, lo]; packet     *)
(* numbers stay below 2^31 in every run (the largest operand the runs      *)
(* produce is expected_pn + pn_hwin < 2^31).                               *)
(***************************************************************************)
EXTENDS Integers, Sequences, FiniteSets, TLC

VARIABLES
    \* ---- Header / negotiate_version harness
    hdr,        \* the Header handed to to_bytes / negotiate_version
    outcap,     \* capacity of the output buffer handed to the writer
    first_rand, \* the octet rand::rand_u8() returns
    wire,       \* bytes on the wire (written by us, or received)
    dcil,       \* locally configured short-header dcid length
    written,    \* result of to_bytes / negotiate_version
    parsed,     \* result of from_bytes
    hpc,        \* position of the header harness
    \* ---- header protection harness
    buf,        \* caller's packet buffer
    off,        \* caller's cursor offset into buf
    aead,       \* the crypto::Open capability: [key, sample_len]
    pn,         \* packet number the sender encodes (-1: none)
    pnres,      \* result of the last encode / decrypt call
    calls,      \* number of decrypt_pkt_num calls made on this cursor
    ppc,        \* position of the header-protection harness
    \* ---- decode_pkt_num harness
    largest_pn, truncated_pn, pn_len, full_pn, decoded, dpc,
    \* ---- PktNumSpace
    space,      \* the PktNumSpace object
    op          \* the last operation applied to space

hvars == <<hdr, outcap, first_rand, wire, dcil, written, parsed, hpc>>
pvars == <<buf, off, aead, pn, pnres, calls, ppc>>
dvars == <<largest_pn, truncated_pn, pn_len, full_pn, decoded, dpc>>
svars == <<space, op>>
vars  == <<hvars, pvars, dvars, svars>>

-----------------------------------------------------------------------------
(* Program constants, src/packet.rs:42-48 *)
FORM_BIT      == 128
KEY_PHASE_BIT == 64
DEMUX_BIT     == 8
TYPE_MASK     == 127
MAX_CID_LEN   == 18

(* ::VERSION_DRAFT15 (lib.rs), 0xff00000f, as 16-bit limbs *)
VERSION_DRAFT15 == [hi |-> 65280, lo |-> 15]

Types == {"Initial", "Retry", "Handshake", "ZeroRTT", "VersionNegotiation",
          "Application"}

-----------------------------------------------------------------------------
(* u8 bit operations *)
RECURSIVE BitAnd(_, _)
BitAnd(a, b) ==
    IF a = 0 \/ b = 0 THEN 0
    ELSE (a % 2) * (b % 2) + 2 * BitAnd(a \div 2, b \div 2)

RECURSIVE BitOr(_, _)
BitOr(a, b) ==
    IF a = 0 THEN b
    ELSE IF b = 0 THEN a
    ELSE (IF a % 2 = 1 \/ b % 2 = 1 THEN 1 ELSE 0) + 2 * BitOr(a \div 2, b \div 2)

RECURSIVE BitXor(_, _)
BitXor(a, b) ==
    IF a = 0 THEN b
    ELSE IF b = 0 THEN a
    ELSE (((a % 2) + (b % 2)) % 2) + 2 * BitXor(a \div 2, b \div 2)

(* !m on a u8 *)
Not8(m) == 255 - m

(* x << n and x >> n on a u8 *)
Shl8(x, n) == (x * (2 ^ n)) % 256
Shr(x, n)  == x \div (2 ^ n)

(* u32 as limbs *)
U32(n)      == [hi |-> n \div 65536, lo |-> n % 65536]
U32ToInt(v) == v.hi * 65536 + v.lo
U32Zero     == [hi |-> 0, lo |-> 0]

-----------------------------------------------------------------------------
(* Results *)
Ok(v)       == [kind |-> "Ok", val |-> v]
Err(e)      == [kind |-> "Err", err |-> e]
Panic(m)    == [kind |-> "Panic", msg |-> m]
NoResult    == [kind |-> "None"]

(* Option<Vec<..>> *)
None        == [some |-> FALSE, v |-> <<>>]
Some(v)     == [some |-> TRUE, v |-> v]

-----------------------------------------------------------------------------
(* octets::Bytes: a bounds-checked cursor [buf, off] over a byte buffer.   *)
BytesNew(s) == [buf |-> s, off |-> 0]
cap(b)      == Len(b.buf) - b.off

Rd(v, b)    == [ok |-> TRUE, val |-> v, b |-> b]
RdFail      == [ok |-> FALSE]

get_u8(b) ==
    IF cap(b) < 1 THEN RdFail
    ELSE Rd(b.buf[b.off + 1], [b EXCEPT !.off = @ + 1])

get_u16(b) ==
    IF cap(b) < 2 THEN RdFail
    ELSE Rd(b.buf[b.off + 1] * 256 + b.buf[b.off + 2], [b EXCEPT !.off = @ + 2])

get_u32(b) ==
    IF cap(b) < 4 THEN RdFail
    ELSE Rd([hi |-> b.buf[b.off + 1] * 256 + b.buf[b.off + 2],
             lo |-> b.buf[b.off + 3] * 256 + b.buf[b.off + 4]],
            [b EXCEPT !.off = @ + 4])

get_bytes(b, n) ==
    IF cap(b) < n THEN RdFail
    ELSE Rd(SubSeq(b.buf, b.off + 1, b.off + n), [b EXCEPT !.off = @ + n])

(* A length no buffer of the model reaches: stands for every 8-byte varint
   value of 2^30 or more. *)
HugeLen == 1073741824

(* get_varint: the two top bits of the first octet give the width 1, 2, 4, 8 *)
get_varint(b) ==
    IF cap(b) < 1 THEN RdFail
    ELSE LET f == b.buf[b.off + 1]
             w == 2 ^ Shr(f, 6)
         IN IF cap(b) < w THEN RdFail
            ELSE LET o  == b.off
                     nb == [b EXCEPT !.off = @ + w]
                 IN CASE w = 1 -> Rd(f, nb)
                      [] w = 2 -> Rd(BitAnd(f, 63) * 256 + b.buf[o + 2], nb)
                      [] w = 4 -> Rd(((BitAnd(f, 63) * 256 + b.buf[o + 2]) * 256
                                       + b.buf[o + 3]) * 256 + b.buf[o + 4], nb)
                      [] w = 8 ->
                           IF BitAnd(f, 63) = 0 /\ b.buf[o + 2] = 0
                              /\ b.buf[o + 3] = 0 /\ b.buf[o + 4] = 0
                              /\ b.buf[o + 5] < 64
                           THEN Rd(((b.buf[o + 5] * 256 + b.buf[o + 6]) * 256
                                     + b.buf[o + 7]) * 256 + b.buf[o + 8], nb)
                           ELSE Rd(HugeLen, nb)

get_bytes_with_varint_length(b) ==
    LET r == get_varint(b)
    IN IF ~r.ok THEN RdFail ELSE get_bytes(r.b, r.val)

(* Writers: the buffer has a fixed capacity; a write past it fails. *)
WrFail == [ok |-> FALSE]
Wr(b)  == [ok |-> TRUE, b |-> b]

put_bytes(b, s) ==
    IF cap(b) < Len(s) THEN WrFail
    ELSE Wr([buf |-> [i \in 1..Len(b.buf) |->
                        IF i > b.off /\ i <= b.off + Len(s)
                        THEN s[i - b.off] ELSE b.buf[i]],
             off |-> b.off + Len(s)])

put_u8(b, v)  == put_bytes(b, <<v>>)
put_u16(b, v) == put_bytes(b, <<v \div 256, v % 256>>)
put_u32(b, v) == put_bytes(b, <<v.hi \div 256, v.hi % 256, v.lo \div 256, v.lo % 256>>)

put_varint(b, v) ==
    IF v < 64 THEN put_u8(b, v)
    ELSE IF v < 16384 THEN put_u16(b, v + 16384)
    ELSE put_u32(b, [hi |-> (v \div 65536) + 32768, lo |-> v % 65536])

(* The bytes written so far *)
Written(b) == SubSeq(b.buf, 1, b.off)
Zeros(n)   == [i \in 1..n |-> 0]

(* w, then the next write on the cursor it leaves: the `?` after each put *)
Then(w, F(_)) == IF w.ok THEN F(w.b) ELSE WrFail

-----------------------------------------------------------------------------
(* Header *)
Header(ty, version, flags, dc, sc, token, versions) ==
    [ty |-> ty, version |-> version, flags |-> flags, dcid |-> dc,
     scid |-> sc, token |-> token, versions |-> versions]

is_long(b) == BitAnd(b, FORM_BIT) # 0

(* wire length of a connection ID from its nibble *)
CidLenNoZero(n) == n + 3
CidLen(n) == IF n > 0 THEN n + 3 ELSE 0

(* ((len - 3) as u8): the nibble of a non-empty connection ID *)
CidNibble(len) == (len - 3) % 256

(* the version list of a Version Negotiation packet: get_u32 until cap = 0 *)
RECURSIVE ReadVersions(_, _)
ReadVersions(b, list) ==
    IF cap(b) > 0
    THEN LET r == get_u32(b)
         IN IF ~r.ok THEN RdFail ELSE ReadVersions(r.b, Append(list, r.val))
    ELSE Rd(list, b)

(* from_bytes after dcid and scid are read: the type-specific tail *)
from_bytes_tail(b, first, ty, version, dc, sc) ==
    CASE ty = "Initial" ->
           LET r == get_bytes_with_varint_length(b)
           IN IF ~r.ok THEN Err("BufferTooShort")
              ELSE Ok(Header(ty, version, BitAnd(first, FORM_BIT), dc, sc,
                             Some(r.val), None))
      [] ty = "Retry" -> Panic("Retry not supported")
      [] ty = "VersionNegotiation" ->
           LET r == ReadVersions(b, <<>>)
           IN IF ~r.ok THEN Err("BufferTooShort")
              ELSE Ok(Header(ty, version, BitAnd(first, FORM_BIT), dc, sc,
                             None, Some(r.val)))
      [] OTHER ->
           Ok(Header(ty, version, BitAnd(first, FORM_BIT), dc, sc, None, None))

(* from_bytes from the CID-length octet on *)
from_bytes_cids(b, first, ty, version) ==
    LET r == get_u8(b)
    IN IF ~r.ok THEN Err("BufferTooShort")
       ELSE LET v     == r.val
                dcil0 == Shr(v, 4)
                scil0 == BitAnd(v, 15)
            IN IF dcil0 > MAX_CID_LEN \/ scil0 > MAX_CID_LEN
               THEN Err("InvalidPacket")
               ELSE LET d == get_bytes(r.b, CidLen(dcil0))
                    IN IF ~d.ok THEN Err("BufferTooShort")
                       ELSE LET s == get_bytes(d.b, CidLen(scil0))
                            IN IF ~s.ok THEN Err("BufferTooShort")
                               ELSE from_bytes_tail(s.b, first, ty, version,
                                                    d.val, s.val)

from_bytes(bytes, short_dcil) ==
    LET b == BytesNew(bytes)
        f == get_u8(b)
    IN IF ~f.ok THEN Err("BufferTooShort")
       ELSE LET first == f.val
            IN IF ~is_long(first)
               THEN LET d == get_bytes(f.b, short_dcil)
                    IN IF ~d.ok THEN Err("BufferTooShort")
                       ELSE Ok(Header("Application", U32Zero,
                                      BitAnd(first, FORM_BIT), d.val, <<>>,
                                      None, None))
               ELSE LET v == get_u32(f.b)
                    IN IF ~v.ok THEN Err("BufferTooShort")
                       ELSE LET version == v.val
                                code    == BitAnd(first, TYPE_MASK)
                            IN IF version = U32Zero
                               THEN from_bytes_cids(v.b, first,
                                        "VersionNegotiation", version)
                               ELSE CASE code = 127 ->
                                           from_bytes_cids(v.b, first, "Initial", version)
                                      [] code = 126 ->
                                           from_bytes_cids(v.b, first, "Retry", version)
                                      [] code = 125 ->
                                           from_bytes_cids(v.b, first, "Handshake", version)
                                      [] code = 124 ->
                                           from_bytes_cids(v.b, first, "ZeroRTT", version)
                                      [] OTHER -> Err("InvalidPacket")

(* the CID-length octet of a long header: dcid nibble high, scid nibble low *)
CilOctet(hi_cid, lo_cid) ==
    LET c1 == IF Len(hi_cid) # 0 THEN BitOr(0, Shl8(CidNibble(Len(hi_cid)), 4)) ELSE 0
    IN IF Len(lo_cid) # 0 THEN BitOr(c1, BitAnd(CidNibble(Len(lo_cid)), 15)) ELSE c1

(* to_bytes: [res, out], out the cursor over the output buffer *)
to_bytes(h, rnd, out) ==
    IF h.ty = "Application"
    THEN LET f1 == BitAnd(rnd, Not8(FORM_BIT))
             f2 == BitAnd(f1, Not8(KEY_PHASE_BIT))
             f3 == BitOr(f2, 32)
             f4 == BitOr(f3, 16)
             f5 == BitAnd(f4, Not8(DEMUX_BIT))
             w  == Then(put_u8(out, f5), LAMBDA b : put_bytes(b, h.dcid))
         IN IF w.ok THEN [res |-> Ok(<<>>), out |-> w.b]
            ELSE [res |-> Err("BufferTooShort"), out |-> out]
    ELSE IF h.ty \notin {"Initial", "Retry", "Handshake", "ZeroRTT"}
    THEN [res |-> Err("InvalidPacket"), out |-> out]
    ELSE LET ty == CASE h.ty = "Initial"   -> 127
                     [] h.ty = "Retry"     -> 126
                     [] h.ty = "Handshake" -> 125
                     [] h.ty = "ZeroRTT"   -> 124
             first == BitOr(FORM_BIT, ty)
             w1 == put_u8(out, first)
             w2 == Then(w1, LAMBDA b : put_u32(b, h.version))
             w3 == Then(w2, LAMBDA b : put_u8(b, CilOctet(h.dcid, h.scid)))
             w4 == Then(w3, LAMBDA b : put_bytes(b, h.dcid))
             w5 == Then(w4, LAMBDA b : put_bytes(b, h.scid))
             w6 == IF h.ty = "Initial"
                   THEN IF h.token.some
                        THEN Then(w5, LAMBDA b : put_bytes(b, h.token.v))
                        ELSE Then(w5, LAMBDA b : put_varint(b, 0))
                   ELSE w5
         IN IF w6.ok THEN [res |-> Ok(<<>>), out |-> w6.b]
            ELSE [res |-> Err("BufferTooShort"), out |-> out]

(* negotiate_version with the client's IDs not inverted *)
negotiate_version_noswap(h, rnd, out) ==
    LET first == BitOr(rnd, FORM_BIT)
        w1 == put_u8(out, first)
        w2 == Then(w1, LAMBDA b : put_u32(b, U32Zero))
        w3 == Then(w2, LAMBDA b : put_u8(b, CilOctet(h.dcid, h.scid)))
        w4 == Then(w3, LAMBDA b : put_bytes(b, h.dcid))
        w5 == Then(w4, LAMBDA b : put_bytes(b, h.scid))
        w6 == Then(w5, LAMBDA b : put_u32(b, VERSION_DRAFT15))
    IN IF w6.ok THEN [res |-> Ok(w6.b.off), out |-> w6.b]
       ELSE [res |-> Err("BufferTooShort"), out |-> out]

(* negotiate_version: [res, out]; res is Ok(b.off()) *)
negotiate_version(h, rnd, out) ==
    LET first == BitOr(rnd, FORM_BIT)
        w1 == put_u8(out, first)
        w2 == Then(w1, LAMBDA b : put_u32(b, U32Zero))
        w3 == Then(w2, LAMBDA b : put_u8(b, CilOctet(h.scid, h.dcid)))
        w4 == Then(w3, LAMBDA b : put_bytes(b, h.scid))
        w5 == Then(w4, LAMBDA b : put_bytes(b, h.dcid))
        w6 == Then(w5, LAMBDA b : put_u32(b, VERSION_DRAFT15))
    IN IF w6.ok THEN [res |-> Ok(w6.b.off), out |-> w6.b]
       ELSE [res |-> Err("BufferTooShort"), out |-> out]

-----------------------------------------------------------------------------
(* Packet number codec *)
pkt_num_len(n) ==
    IF n < 128 THEN Ok(1)
    ELSE IF n < 16384 THEN Ok(2)
    ELSE IF n < 1073741824 THEN Ok(4)
    ELSE Err("InvalidPacket")

pkt_num_bits(len) ==
    CASE len = 1 -> Ok(7)
      [] len = 2 -> Ok(14)
      [] len = 4 -> Ok(30)
      [] OTHER   -> Err("InvalidPacket")

(* x & !mask and x | t on u64, mask = 2^k - 1 *)
AndNotMask(x, mask) == x - BitAnd(x, mask)

(* decode_pkt_num with the window tests of the first two branches swapped
   for a plain "take the candidate" *)
decode_pkt_num_nowin(largest, truncated, len) ==
    LET nb == pkt_num_bits(len)
    IN IF nb.kind # "Ok" THEN nb
       ELSE LET pn_win == 2 ^ nb.val
                pn_mask == pn_win - 1
                expected_pn == largest + 1
            IN Ok(BitOr(AndNotMask(expected_pn, pn_mask), truncated))

(* decode_pkt_num halving the window once too often *)
decode_pkt_num_qwin(largest, truncated, len) ==
    LET nb == pkt_num_bits(len)
    IN IF nb.kind # "Ok" THEN nb
       ELSE LET pn_nbits     == nb.val
                expected_pn  == largest + 1
                pn_win       == 2 ^ pn_nbits
                pn_hwin      == pn_win \div 4
                pn_mask      == pn_win - 1
                candidate_pn == BitOr(AndNotMask(expected_pn, pn_mask), truncated)
            IN IF candidate_pn + pn_hwin <= expected_pn
               THEN Ok(candidate_pn + pn_win)
               ELSE IF candidate_pn > expected_pn + pn_hwin /\ candidate_pn > pn_win
               THEN Ok(candidate_pn - pn_win)
               ELSE Ok(candidate_pn)

decode_pkt_num(largest, truncated, len) ==
    LET nb == pkt_num_bits(len)
    IN IF nb.kind # "Ok" THEN nb
       ELSE LET pn_nbits     == nb.val
                expected_pn  == largest + 1
                pn_win       == 2 ^ pn_nbits
                pn_hwin      == pn_win \div 2
                pn_mask      == pn_win - 1
                candidate_pn == BitOr(AndNotMask(expected_pn, pn_mask), truncated)
            IN IF candidate_pn + pn_hwin <= expected_pn
               THEN Ok(candidate_pn + pn_win)
               ELSE IF candidate_pn > expected_pn + pn_hwin /\ candidate_pn > pn_win
               THEN Ok(candidate_pn - pn_win)
               ELSE Ok(candidate_pn)

(* buf[0] of the slice a put returned: the first byte just written *)
PatchFirst(w, old, F(_)) ==
    IF ~w.ok THEN [res |-> Err("BufferTooShort"), out |-> old]
    ELSE [res |-> Ok(<<>>),
          out |-> [w.b EXCEPT !.buf[old.off + 1] = F(w.b.buf[old.off + 1])]]

(* encode_pkt_num leaving the high bits of the first byte as put wrote them *)
encode_pkt_num_nomark(n, b) ==
    LET len == pkt_num_len(n)
    IN IF len.kind # "Ok" THEN [res |-> len, out |-> b]
       ELSE CASE len.val = 1 -> PatchFirst(put_u8(b, n % 256), b, LAMBDA x : x)
              [] len.val = 2 -> PatchFirst(put_u16(b, n % 65536), b, LAMBDA x : x)
              [] len.val = 4 -> PatchFirst(put_u32(b, U32(n)), b, LAMBDA x : x)

(* encode_pkt_num: [res, out] *)
encode_pkt_num(n, b) ==
    LET len == pkt_num_len(n)
    IN IF len.kind # "Ok" THEN [res |-> len, out |-> b]
       ELSE CASE len.val = 1 ->
                   PatchFirst(put_u8(b, n % 256), b,
                              LAMBDA x : BitAnd(x, Not8(128)))
              [] len.val = 2 ->
                   PatchFirst(put_u16(b, n % 65536), b,
                              LAMBDA x : BitOr(BitAnd(x, Not8(192)), 128))
              [] len.val = 4 ->
                   PatchFirst(put_u32(b, U32(n)), b,
                              LAMBDA x : BitOr(x, 192))
              [] OTHER -> [res |-> Err("InvalidPacket"), out |-> b]

-----------------------------------------------------------------------------
(* Header protection.  crypto::Open is [key, sample_len]: pn_nonce_len() is
   sample_len, and xor_keystream(sample, data) XORs data with a keystream
   that the key and the sample determine. *)
pn_nonce_len(a) == a.sample_len

KeystreamByte(a, sample, i) ==
    BitXor(a.key[((i - 1) % Len(a.key)) + 1],
           IF Len(sample) = 0 THEN 0 ELSE sample[((i - 1) % Len(sample)) + 1])

xor_keystream(a, sample, data) ==
    [i \in 1..Len(data) |-> BitXor(data[i], KeystreamByte(a, sample, i))]

(* peek_bytes(len): a cursor over buf[off .. off+len) that shares the bytes *)
peek_bytes(b, n) ==
    IF cap(b) < n THEN RdFail
    ELSE Rd(SubSeq(b.buf, b.off + 1, b.off + n), b)

(* the caller's buffer with data written at the cursor *)
WriteAt(b, data) ==
    [i \in 1..Len(b.buf) |->
        IF i > b.off /\ i <= b.off + Len(data) THEN data[i - b.off] ELSE b.buf[i]]

(* big-endian value of the plaintext, by get_u8 / get_u16 / get_u32 *)
PlainValue(plaintext, len) ==
    LET c == BytesNew(plaintext)
    IN CASE len = 1 -> LET r == get_u8(c)
                       IN IF r.ok THEN Ok(<<r.val, len>>) ELSE Err("BufferTooShort")
         [] len = 2 -> LET r == get_u16(c)
                       IN IF r.ok THEN Ok(<<r.val, len>>) ELSE Err("BufferTooShort")
         [] len = 4 -> LET r == get_u32(c)
                       IN IF r.ok THEN Ok(<<U32ToInt(r.val), len>>)
                          ELSE Err("BufferTooShort")
         [] OTHER   -> Err("InvalidPacket")

(* decrypt_pkt_num from the split on: ciphertext and sample are the two
   halves of the peeked region *)
decrypt_split(b, a, max_pn_len, region) ==
    LET ciphertext == SubSeq(region, 1, max_pn_len)
        sample     == SubSeq(region, max_pn_len + 1, Len(region))
    IN IF max_pn_len < 1
       THEN [res |-> Panic("index out of bounds"), buf |-> b.buf]
       ELSE LET first == xor_keystream(a, sample, <<ciphertext[1]>>)[1]
                len   == IF Shr(first, 7) = 0 THEN 1
                         ELSE CASE Shr(first, 6) = 2 -> 2
                                [] Shr(first, 6) = 3 -> 4
                                [] OTHER -> 0
            IN IF len = 0 THEN [res |-> Err("InvalidPacket"), buf |-> b.buf]
               ELSE IF len > max_pn_len
               THEN [res |-> Panic("slice index out of range"), buf |-> b.buf]
               ELSE LET plain == xor_keystream(a, sample, SubSeq(ciphertext, 1, len))
                        plaintext == IF len > 1
                                     THEN [plain EXCEPT ![1] = BitAnd(@, 63)]
                                     ELSE plain
                    IN [res |-> PlainValue(plaintext, len),
                        buf |-> WriteAt(b, plain)]

(* decrypt_pkt_num unmasking a copy: the caller's bytes stay masked *)
decrypt_pkt_num_copy(b, a, overflow_checks) ==
    IF cap(b) < pn_nonce_len(a) /\ overflow_checks
    THEN [res |-> Panic("attempt to subtract with overflow"), buf |-> b.buf]
    ELSE LET max_pn_len == IF cap(b) < pn_nonce_len(a) THEN 4
                           ELSE IF cap(b) - pn_nonce_len(a) < 4
                                THEN cap(b) - pn_nonce_len(a) ELSE 4
             pk == peek_bytes(b, max_pn_len + pn_nonce_len(a))
         IN IF ~pk.ok THEN [res |-> Err("BufferTooShort"), buf |-> b.buf]
            ELSE [res |-> decrypt_split(b, a, max_pn_len, pk.val).res,
                  buf |-> b.buf]

(* decrypt_pkt_num: [res, buf], buf the caller's buffer afterwards.  The
   subtraction b.cap() - pn_nonce_len() is on usize: below zero it panics
   when the build checks overflow and wraps to 2^64 - n when it does not. *)
decrypt_pkt_num(b, a, overflow_checks) ==
    IF cap(b) < pn_nonce_len(a) /\ overflow_checks
    THEN [res |-> Panic("attempt to subtract with overflow"), buf |-> b.buf]
    ELSE LET max_pn_len == IF cap(b) < pn_nonce_len(a) THEN 4
                           ELSE IF cap(b) - pn_nonce_len(a) < 4
                                THEN cap(b) - pn_nonce_len(a) ELSE 4
             pk == peek_bytes(b, max_pn_len + pn_nonce_len(a))
         IN IF ~pk.ok THEN [res |-> Err("BufferTooShort"), buf |-> b.buf]
            ELSE decrypt_split(b, a, max_pn_len, pk.val)

-----------------------------------------------------------------------------
(* Idle values of the harnesses a specification does not use *)
NoHeader == Header("Application", U32Zero, 0, <<>>, <<>>, None, None)
NoAead   == [key |-> <<>>, sample_len |-> 0]
NoSpace  == [pkt_type |-> "Application"]

HIdle == /\ hdr = NoHeader /\ outcap = 0 /\ first_rand = 0 /\ wire = <<>>
         /\ dcil = 0 /\ written = NoResult /\ parsed = NoResult /\ hpc = "idle"
PIdle == /\ buf = <<>> /\ off = 0 /\ aead = NoAead /\ pn = -1
         /\ pnres = NoResult /\ calls = 0 /\ ppc = "idle"
DIdle == /\ largest_pn = 0 /\ truncated_pn = 0 /\ pn_len = 1 /\ full_pn = -1
         /\ decoded = NoResult /\ dpc = "idle"
SIdle == /\ space = NoSpace /\ op = "idle"

-----------------------------------------------------------------------------
(* Header harness: serialize a Header and parse it back, answer a client
   with a Version Negotiation packet and parse that, parse received bytes. *)

(* bounds of the header harness *)
OutCapSmall == 7
OutCapFull  == 64
MaxPayload  == 37

CidLens    == {0} \cup (4..MAX_CID_LEN)
Cid(n, k)  == [i \in 1..n |-> (k + i) % 256]
Fill(n, k) == [i \in 1..n |-> k]
Versions   == {U32(1), VERSION_DRAFT15}
RandOctets == {0, 255}
Tokens     == {None, Some(<<>>), Some(<<5>>), Some(<<1, 7>>)}
LongTypes  == {"Initial", "Retry", "Handshake", "ZeroRTT"}

Headers ==
    {Header(ty, v, FORM_BIT, Cid(dl, 16), Cid(sl, 160), tok, None) :
        ty \in {"Initial"}, v \in Versions, dl \in CidLens, sl \in CidLens,
        tok \in Tokens}
    \cup
    {Header(ty, v, FORM_BIT, Cid(dl, 16), Cid(sl, 160), None, None) :
        ty \in LongTypes \ {"Initial"}, v \in Versions, dl \in CidLens,
        sl \in CidLens}
    \cup
    {Header("VersionNegotiation", U32Zero, FORM_BIT, Cid(dl, 16), Cid(sl, 160),
            None, Some(<<VERSION_DRAFT15>>)) : dl \in CidLens, sl \in CidLens}
    \cup
    {Header("Application", U32Zero, 0, Cid(dl, 16), <<>>, None, None) :
        dl \in CidLens}

(* received packets: every first-octet class, every CID-length octet *)
FirstOctets == {255, 254, 253, 252, 251, 48}
PayloadLens == {0, 20, MaxPayload}
FillOctets  == {0, 2}

WireOf(f, v, cil, n, k) ==
    <<f, v.hi \div 256, v.hi % 256, v.lo \div 256, v.lo % 256, cil>> \o Fill(n, k)

Wires ==
    {WireOf(f, U32(1), cil, n, k) : f \in FirstOctets,
        cil \in 0..255, n \in PayloadLens, k \in FillOctets}
    \cup
    {WireOf(f, U32Zero, cil, n, k) : f \in {255, 48},
        cil \in 0..255, n \in PayloadLens, k \in FillOctets}
    \cup
    {SubSeq(WireOf(f, U32(1), 0, 0, 0), 1, n) : f \in FirstOctets, n \in 0..5}

HInit ==
    \/ /\ hdr \in Headers
       /\ outcap \in {OutCapFull} \cup (IF hdr.scid = <<>> THEN {OutCapSmall} ELSE {})
       /\ first_rand \in RandOctets
       /\ dcil = Len(hdr.dcid)
       /\ wire = <<>>
       /\ written = NoResult /\ parsed = NoResult
       /\ hpc = "hdr"
    \/ /\ hdr = NoHeader /\ outcap = 0 /\ first_rand = 0
       /\ wire \in Wires
       /\ dcil \in IF wire # <<>> /\ ~is_long(wire[1]) THEN {0, 8} ELSE {0}
       /\ written = NoResult /\ parsed = NoResult
       /\ hpc = "wire"

DoToBytes ==
    /\ hpc = "hdr"
    /\ LET r == to_bytes(hdr, first_rand, BytesNew(Zeros(outcap)))
       IN /\ written' = r.res
          /\ wire' = IF r.res.kind = "Ok" THEN Written(r.out) ELSE <<>>
          /\ hpc' = IF r.res.kind = "Ok" THEN "serialized" ELSE "failed"
    /\ UNCHANGED <<hdr, outcap, first_rand, dcil, parsed>>
    /\ UNCHANGED <<pvars, dvars, svars>>

DoNegotiateVersion ==
    /\ hpc = "hdr"
    /\ LET r == negotiate_version(hdr, first_rand, BytesNew(Zeros(outcap)))
       IN /\ written' = r.res
          /\ wire' = IF r.res.kind = "Ok" THEN SubSeq(r.out.buf, 1, r.res.val)
                     ELSE <<>>
          /\ hpc' = IF r.res.kind = "Ok" THEN "negotiated" ELSE "failed"
    /\ UNCHANGED <<hdr, outcap, first_rand, dcil, parsed>>
    /\ UNCHANGED <<pvars, dvars, svars>>

DoFromBytes ==
    /\ hpc \in {"serialized", "negotiated", "wire"}
    /\ parsed' = from_bytes(wire, dcil)
    /\ hpc' = CASE hpc = "serialized" -> "parsed_ser"
                [] hpc = "negotiated" -> "parsed_neg"
                [] hpc = "wire"       -> "parsed_wire"
    /\ UNCHANGED <<hdr, outcap, first_rand, wire, dcil, written>>
    /\ UNCHANGED <<pvars, dvars, svars>>

HNext == DoToBytes \/ DoNegotiateVersion \/ DoFromBytes

InitHeader == HInit /\ PIdle /\ DIdle /\ SIdle

SpecHeader == InitHeader /\ [][HNext]_vars

-----------------------------------------------------------------------------
(* Header-protection harness: a receiver's cursor over received bytes, or a
   sender that encodes a packet number, masks it and hands it to the
   receiver followed by the sample. *)

(* AEAD sample length, crypto::Algorithm::pn_nonce_len() *)
SampleLen == 16

(* bounds of the harness *)
MaxTail   == 5
MaxCalls  == 2
PnSpread  == 2

Keys        == {<<0, 0, 0, 0>>, <<128, 1, 2, 3>>, <<193, 255, 16, 32>>}
Aeads       == {[key |-> k, sample_len |-> SampleLen] : k \in Keys}
WireOctets  == {5, 129, 194}
SampleFills == {0, 51}
RemLens     == {0} \cup ((SampleLen - 1)..(SampleLen + MaxTail))
PnEdges     == {0, 128, 256, 16384, 65536, 16777216, 1073741824}
PnInputs    == {e + d : e \in PnEdges, d \in (-PnSpread)..PnSpread} \cap Nat

PInit ==
    /\ aead \in Aeads
    /\ off \in {0, 1}
    /\ pnres = NoResult /\ calls = 0
    /\ \/ /\ pn = -1
          /\ \E body \in [1..4 -> WireOctets], s \in SampleFills, rem \in RemLens :
                buf = Fill(off, 90)
                      \o SubSeq(body \o Fill(SampleLen + MaxTail, s), 1, rem)
          /\ ppc = "wire"
       \/ /\ pn \in PnInputs
          /\ \E c \in {2, 4} : buf = Fill(off, 90) \o Zeros(c)
          /\ ppc = "pn"

DoEncodePktNum ==
    /\ ppc = "pn"
    /\ LET r == encode_pkt_num(pn, [buf |-> buf, off |-> off])
       IN /\ pnres' = r.res
          /\ buf' = IF r.res.kind = "Ok" THEN Written(r.out) ELSE buf
          /\ ppc' = IF r.res.kind = "Ok" THEN "encoded" ELSE "failed"
    /\ UNCHANGED <<off, aead, pn, calls>>
    /\ UNCHANGED <<hvars, dvars, svars>>

(* the sender masks the packet-number bytes with the keystream of the
   sample that follows them *)
DoProtect ==
    /\ ppc = "encoded"
    /\ \E s \in SampleFills :
          LET sample == Fill(SampleLen, s)
              plain  == SubSeq(buf, off + 1, Len(buf))
          IN buf' = SubSeq(buf, 1, off) \o xor_keystream(aead, sample, plain)
                    \o sample
    /\ ppc' = "wire"
    /\ UNCHANGED <<off, aead, pn, pnres, calls>>
    /\ UNCHANGED <<hvars, dvars, svars>>

DoDecryptPktNum ==
    /\ ppc = "wire"
    /\ calls < MaxCalls
    /\ \E overflow_checks \in BOOLEAN :
          LET r == decrypt_pkt_num([buf |-> buf, off |-> off], aead, overflow_checks)
          IN /\ pnres' = r.res
             /\ buf' = r.buf
             /\ ppc' = IF r.res.kind = "Panic" THEN "panicked" ELSE "wire"
    /\ calls' = calls + 1
    /\ UNCHANGED <<off, aead, pn>>
    /\ UNCHANGED <<hvars, dvars, svars>>

PNext == DoEncodePktNum \/ DoProtect \/ DoDecryptPktNum

InitProtect == HIdle /\ PInit /\ DIdle /\ SIdle

SpecProtect == InitProtect /\ [][PNext]_vars

-----------------------------------------------------------------------------
(* decode_pkt_num harness: the receiver expands a truncated packet number,
   either one a sender truncated from a full number or an arbitrary one. *)

(* bounds of the harness *)
DSpread  == 2
NearSpan == 3

Spread(edges) == {e + d : e \in edges, d \in (-DSpread)..DSpread}
Largests == Spread({0, 64, 128, 192, 8192, 16384, 24576, 536870912, 1073741808})
            \cap Nat
Deltas   == Spread({0, 64, -64, 128, -128, 8192, -8192, 16384, -16384,
                    536870912, -536870912, 1073741824, -1073741824})
TruncatedOf(len) ==
    CASE len = 1 -> Spread({0, 64, 127}) \cap (0..127)
      [] len = 2 -> Spread({0, 128, 8192, 16383}) \cap (0..16383)
      [] len = 4 -> Spread({0, 16384, 536870912, 1073741823}) \cap (0..1073741823)
      [] OTHER   -> {0}

DInit ==
    /\ largest_pn \in Largests
    /\ decoded = NoResult
    /\ \/ /\ \E d \in Deltas : full_pn = largest_pn + 1 + d
          /\ full_pn >= 0
          /\ pn_len = 0 /\ truncated_pn = 0
          /\ dpc = "pn"
       \/ /\ full_pn = -1
          /\ pn_len \in {1, 2, 3, 4}
          /\ truncated_pn \in TruncatedOf(pn_len)
          /\ dpc = "truncated"

(* the sender keeps the low pkt_num_bits(pkt_num_len(pn)) bits of pn *)
DoTruncate ==
    /\ dpc = "pn"
    /\ LET len == pkt_num_len(full_pn)
       IN IF len.kind = "Ok"
          THEN /\ pn_len' = len.val
               /\ truncated_pn' = full_pn % (2 ^ pkt_num_bits(len.val).val)
               /\ dpc' = "truncated"
               /\ decoded' = decoded
          ELSE /\ decoded' = len
               /\ dpc' = "failed"
               /\ UNCHANGED <<pn_len, truncated_pn>>
    /\ UNCHANGED <<largest_pn, full_pn>>
    /\ UNCHANGED <<hvars, pvars, svars>>

DoDecodePktNum ==
    /\ dpc = "truncated"
    /\ decoded' = decode_pkt_num(largest_pn, truncated_pn, pn_len)
    /\ dpc' = "decoded"
    /\ UNCHANGED <<largest_pn, truncated_pn, pn_len, full_pn>>
    /\ UNCHANGED <<hvars, pvars, svars>>

DNext == DoTruncate \/ DoDecodePktNum

InitDecode == HIdle /\ PIdle /\ DInit /\ SIdle

SpecDecode == InitDecode /\ [][DNext]_vars

-----------------------------------------------------------------------------
(* PktNumSpace.  recovery::InFlight is [sent, lost], stream::Stream is
   [send, max_rx_data, max_tx_data] with send the data not yet sent, and
   ranges::RangeSet is a set of packet numbers. *)
InFlightDefault == [sent |-> {}, lost |-> <<>>]
StreamNew(max_rx, max_tx) ==
    [send |-> <<>>, max_rx_data |-> max_rx, max_tx_data |-> max_tx]
StreamDefault == StreamNew("0", "0")
writable(st)  == Len(st.send) > 0
NoKey         == [some |-> FALSE, alg |-> "Null"]

new(ty, level) ==
    [pkt_type           |-> ty,
     largest_rx_pkt_num |-> 0,
     next_pkt_num       |-> 0,
     recv_pkt_num       |-> {},
     flight             |-> InFlightDefault,
     do_ack             |-> FALSE,
     crypto_level       |-> level,
     crypto_open        |-> NoKey,
     crypto_seal        |-> NoKey,
     crypto_stream      |-> StreamNew("usize::MAX", "usize::MAX")]

(* clear() that forgets to reset the in-flight ledger *)
clear_keep_flight(sp) ==
    [sp EXCEPT !.crypto_stream = StreamDefault]

(* clear() that rebuilds the space as new() does *)
clear_as_new(sp) ==
    new(sp.pkt_type, sp.crypto_level)

clear(sp) ==
    [sp EXCEPT !.flight = InFlightDefault,
               !.crypto_stream = StreamDefault]

cipher(sp) ==
    IF sp.crypto_open.some THEN sp.crypto_open.alg ELSE "Null"

ready(sp) ==
    writable(sp.crypto_stream) \/ sp.flight.lost # <<>> \/ sp.do_ack

(* bounds of the PktNumSpace harness *)
MaxPktNum == 2
MaxStream == 2

Levels == {"Initial", "Handshake", "Application"}

SInit ==
    /\ \E ty \in {"Initial", "Handshake", "Application"} :
          space = new(ty, ty)
    /\ op = "new"

(* key derivation installs the open and seal keys *)
InstallKeys ==
    /\ ~space.crypto_open.some
    /\ space' = [space EXCEPT !.crypto_open = [some |-> TRUE, alg |-> "AES128_GCM"],
                              !.crypto_seal = [some |-> TRUE, alg |-> "AES128_GCM"]]
    /\ op' = "install_keys"
    /\ UNCHANGED <<hvars, pvars, dvars>>

(* the handshake queues data on the crypto stream *)
QueueCrypto ==
    /\ Len(space.crypto_stream.send) < MaxStream
    /\ space' = [space EXCEPT !.crypto_stream.send = Append(@, "crypto")]
    /\ op' = "queue_crypto"
    /\ UNCHANGED <<hvars, pvars, dvars>>

(* a packet is built: it takes the next number, carries the owed ACK, the
   lost frames and the unsent crypto data, and joins the in-flight ledger *)
SendPkt ==
    /\ ready(space)
    /\ space.next_pkt_num <= MaxPktNum
    /\ space' = [space EXCEPT !.next_pkt_num = @ + 1,
                              !.do_ack = FALSE,
                              !.flight.sent = @ \cup {space.next_pkt_num},
                              !.flight.lost = <<>>,
                              !.crypto_stream.send = <<>>]
    /\ op' = "send"
    /\ UNCHANGED <<hvars, pvars, dvars>>

(* a packet is received and decoded: an ACK is owed *)
RecvPkt ==
    /\ \E n \in 0..MaxPktNum :
          space' = [space EXCEPT
                       !.recv_pkt_num = @ \cup {n},
                       !.largest_rx_pkt_num = IF n > @ THEN n ELSE @,
                       !.do_ack = TRUE]
    /\ op' = "recv"
    /\ UNCHANGED <<hvars, pvars, dvars>>

(* the owed ACK is dropped without a packet being built *)
UnsetDoAck ==
    /\ space.do_ack
    /\ space' = [space EXCEPT !.do_ack = FALSE]
    /\ op' = "unset_do_ack"
    /\ UNCHANGED <<hvars, pvars, dvars>>

(* loss detection declares a sent packet lost *)
LosePkt ==
    /\ \E n \in space.flight.sent :
          space' = [space EXCEPT !.flight.sent = @ \ {n},
                                 !.flight.lost = Append(@, n)]
    /\ op' = "lose"
    /\ UNCHANGED <<hvars, pvars, dvars>>

Clear ==
    /\ space' = clear(space)
    /\ op' = "clear"
    /\ UNCHANGED <<hvars, pvars, dvars>>

SNext ==
    \/ InstallKeys \/ QueueCrypto \/ SendPkt \/ RecvPkt \/ UnsetDoAck
    \/ LosePkt \/ Clear

Init == HIdle /\ PIdle /\ DIdle /\ SInit

Spec == Init /\ [][SNext]_vars

(* C1: for every valid long-form Header (Initial, Retry, Handshake or
   ZeroRTT, version # 0, CID lengths 0 or 4..18, any token), to_bytes then
   from_bytes on the written bytes succeeds and yields the same type,
   version, dcid, scid and, for Initial, token (an absent token and an empty
   one both count as the empty token). *)
C1_RoundTrip ==
    (hpc = "parsed_ser" /\ hdr.ty \in LongTypes /\ hdr.version # U32Zero) =>
        /\ parsed.kind = "Ok"
        /\ parsed.val.ty = hdr.ty
        /\ parsed.val.version = hdr.version
        /\ parsed.val.dcid = hdr.dcid
        /\ parsed.val.scid = hdr.scid
        /\ (hdr.ty = "Initial" => parsed.val.token.v = hdr.token.v)

(* C5: from_bytes never panics on the CID-length octet of a long header (its
   only panic is the Retry arm, reached after both IDs are read); a nibble
   whose wire length exceeds 18 gives InvalidPacket; every long-form Header
   returned has dcid and scid lengths 0 (nibble 0) or nibble + 3, hence in
   {0} \cup 4..18. *)
C5_CidLengths ==
    (hpc \in {"parsed_wire", "parsed_ser", "parsed_neg"} /\ Len(wire) >= 6
        /\ is_long(wire[1])) =>
        LET dn == wire[6] \div 16
            sn == wire[6] % 16
            dw == IF dn = 0 THEN 0 ELSE dn + 3
            sw == IF sn = 0 THEN 0 ELSE sn + 3
        IN /\ parsed.kind = "Panic" =>
                /\ wire[1] % 128 = 126
                /\ <<wire[2], wire[3], wire[4], wire[5]>> # <<0, 0, 0, 0>>
                /\ Len(wire) >= 6 + dw + sw
           /\ (dw > 18 \/ sw > 18) => parsed = Err("InvalidPacket")
           /\ parsed.kind = "Ok" =>
                /\ Len(parsed.val.dcid) = dw
                /\ Len(parsed.val.scid) = sw
                /\ Len(parsed.val.dcid) \in CidLens
                /\ Len(parsed.val.scid) \in CidLens

C5_Witness ==
    /\ hpc = "parsed_wire" /\ Len(wire) >= 6 /\ is_long(wire[1])
    /\ wire[6] = 240
    /\ parsed.kind = "Ok"
    /\ Len(parsed.val.dcid) = 18 /\ Len(parsed.val.scid) = 0

(* C6: parsing the bytes negotiate_version wrote gives a Version Negotiation
   header, version 0, with the client's scid as dcid and the client's dcid as
   scid and exactly the one supported version; the count returned is
   1 + 4 + 1 + len(scid) + len(dcid) + 4. *)
C6_NegotiateVersion ==
    /\ hpc \in {"negotiated", "parsed_neg"} =>
        /\ written = Ok(1 + 4 + 1 + Len(hdr.scid) + Len(hdr.dcid) + 4)
        /\ Len(wire) = written.val
    /\ hpc = "parsed_neg" =>
        /\ parsed.kind = "Ok"
        /\ parsed.val.ty = "VersionNegotiation"
        /\ parsed.val.version = U32Zero
        /\ parsed.val.dcid = hdr.scid
        /\ parsed.val.scid = hdr.dcid
        /\ parsed.val.versions = Some(<<VERSION_DRAFT15>>)

C6_Witness ==
    /\ hpc = "parsed_neg" /\ parsed.kind = "Ok"
    /\ Len(hdr.dcid) = 18 /\ Len(hdr.scid) = 4
    /\ parsed.val.dcid = hdr.scid /\ Len(parsed.val.scid) = 18
    /\ first_rand = 0

(* C2: whatever the cursor holds, decrypt_pkt_num returns a (number, length)
   pair or an error value; it never terminates the process. *)
C2_NoPanic ==
    calls >= 1 => pnres.kind \in {"Ok", "Err"}

(* C4 as claimed: decrypt_pkt_num leaves the cursor position and the bytes
   of the caller's buffer unchanged, and a second call in a row returns what
   the first returned. *)
C4_Idempotent ==
    [][(calls' = calls + 1) =>
         /\ off' = off
         /\ buf' = buf
         /\ (calls' = 2 => pnres' = pnres)]_vars

(* the packet-number bytes at the cursor, discriminator bits cleared, as a
   big-endian number *)
PnAtCursor(bytes, o, len) ==
    CASE len = 1 -> bytes[o + 1] % 128
      [] len = 2 -> (bytes[o + 1] % 64) * 256 + bytes[o + 2]
      [] len = 4 -> (((bytes[o + 1] % 64) * 256 + bytes[o + 2]) * 256
                       + bytes[o + 3]) * 256 + bytes[o + 4]

DiscriminatorLen(octet) ==
    IF octet < 128 THEN 1 ELSE IF octet < 192 THEN 2 ELSE 4

(* C4 amended: decrypt_pkt_num leaves the cursor position unchanged and
   every byte outside the len packet-number bytes at the cursor unchanged;
   those len bytes are overwritten in place with their unmasked values, so
   afterwards they spell the returned number under its length
   discriminator.  A call that returns an error changes nothing. *)
C4_InPlace ==
    [][(calls' = calls + 1 /\ pnres'.kind # "Panic") =>
         /\ off' = off
         /\ Len(buf') = Len(buf)
         /\ pnres'.kind = "Err" => buf' = buf
         /\ pnres'.kind = "Ok" =>
              LET len == pnres'.val[2]
              IN /\ \A i \in 1..Len(buf) :
                      (i <= off \/ i > off + len) => buf'[i] = buf[i]
                 /\ DiscriminatorLen(buf'[off + 1]) = len
                 /\ PnAtCursor(buf', off, len) = pnres'.val[1]]_vars

C4_Witness ==
    /\ calls = 2 /\ pn = -1 /\ off = 1
    /\ pnres.kind = "Ok" /\ pnres.val[2] = 4
    /\ aead.key # <<0, 0, 0, 0>>

(* C10: for every pn < 2^30 encode_pkt_num writes pkt_num_len(pn) bytes, the
   first carrying the length discriminator and the remaining bits holding pn;
   masked with any keystream and followed by a full sample, decrypt_pkt_num
   returns (pn, pkt_num_len(pn)). *)
C10_EncodeDecrypt ==
    /\ (ppc = "encoded" /\ pn < 1073741824) =>
          LET len == Len(buf) - off
          IN /\ pkt_num_len(pn) = Ok(len)
             /\ DiscriminatorLen(buf[off + 1]) = len
             /\ PnAtCursor(buf, off, len) = pn
    /\ (ppc \in {"wire", "panicked"} /\ pn # -1 /\ calls = 1) =>
          /\ pn < 1073741824
          /\ pnres = Ok(<<pn, pkt_num_len(pn).val>>)

C10_Witness ==
    /\ ppc = "wire" /\ calls = 1 /\ pn = 16385
    /\ aead.key = <<193, 255, 16, 32>>
    /\ pnres = Ok(<<16385, 4>>)

Abs(x) == IF x < 0 THEN -x ELSE x

(* C3 as claimed: for every largest_pn and every pn < 2^30 within one window
   of it, |pn - largest_pn| <= 2^bits, decoding pn mod 2^bits gives pn. *)
C3_WholeWindow ==
    (dpc = "decoded" /\ full_pn # -1
        /\ Abs(full_pn - largest_pn) <= 2 ^ pkt_num_bits(pn_len).val) =>
        decoded = Ok(full_pn)

(* C3 amended: for every largest_pn and every pn < 2^30 within half a window
   of the expected number, expected - hwin < pn <= expected + hwin with
   expected = largest_pn + 1 and hwin = 2^(bits - 1), decoding pn mod 2^bits
   gives pn. *)
C3_HalfWindow ==
    (dpc = "decoded" /\ full_pn # -1) =>
        LET hwin == 2 ^ (pkt_num_bits(pn_len).val - 1)
            expected == largest_pn + 1
        IN (expected - hwin < full_pn /\ full_pn <= expected + hwin) =>
               decoded = Ok(full_pn)

C3_Witness ==
    /\ dpc = "decoded" /\ pn_len = 2
    /\ largest_pn = 16385
    /\ full_pn = 16386 - 8192 + 1
    /\ decoded = Ok(full_pn)

(* C9: for every largest_pn, pn_len in {1, 2, 4} and truncated_pn < 2^bits,
   decode_pkt_num returns a non-negative value congruent to truncated_pn
   modulo win, and no other non-negative value congruent to it is strictly
   nearer to expected = largest_pn + 1. *)
C9_Nearest ==
    (dpc = "decoded" /\ pn_len \in {1, 2, 4}) =>
        LET win == 2 ^ pkt_num_bits(pn_len).val
            expected == largest_pn + 1
            ks == IF pn_len = 4 THEN {-1, 1}
                  ELSE ((-NearSpan)..NearSpan) \ {0}
        IN /\ decoded.kind = "Ok"
           /\ decoded.val >= 0
           /\ decoded.val % win = truncated_pn
           /\ \A k \in ks :
                 (decoded.val >= -(k * win)) =>
                     Abs((decoded.val - expected) + k * win)
                         >= Abs(decoded.val - expected)

C9_Witness ==
    /\ dpc = "decoded" /\ full_pn = -1 /\ pn_len = 2
    /\ largest_pn = 16384 /\ truncated_pn = 16383
    /\ decoded = Ok(16383)

(* C7: over any sequence of operations on a PktNumSpace, ready() is true
   exactly when the crypto stream has unsent data, or the lost list is
   non-empty, or do_ack is set; a fresh space is not ready; setting do_ack
   makes it ready; a space whose only readiness trigger is pending lost
   packets is not ready right after clear(). *)
C7_Ready ==
    /\ [](/\ ready(space) <=> (\/ Len(space.crypto_stream.send) > 0
                              \/ Len(space.flight.lost) > 0
                              \/ space.do_ack)
          /\ op = "new" => ~ready(space))
    /\ [][/\ (~space.do_ack /\ space'.do_ack) => ready(space')
          /\ (op' = "clear" /\ space.flight.lost # <<>> /\ ~space.do_ack
                /\ ~writable(space.crypto_stream)) => ~ready(space')]_vars

C7_Witness ==
    /\ op = "clear" /\ ~ready(space)
    /\ space.next_pkt_num > 0 /\ space.flight.sent = {}
    /\ space.largest_rx_pkt_num > 0

(* C8: clear() leaves next_pkt_num, largest_rx_pkt_num, recv_pkt_num, do_ack,
   pkt_type, crypto_level, crypto_open and crypto_seal unchanged, and
   afterwards the in-flight ledger and the crypto stream are empty. *)
C8_ClearFrame ==
    [][op' = "clear" =>
         /\ space'.next_pkt_num = space.next_pkt_num
         /\ space'.largest_rx_pkt_num = space.largest_rx_pkt_num
         /\ space'.recv_pkt_num = space.recv_pkt_num
         /\ space'.do_ack = space.do_ack
         /\ space'.pkt_type = space.pkt_type
         /\ space'.crypto_level = space.crypto_level
         /\ space'.crypto_open = space.crypto_open
         /\ space'.crypto_seal = space.crypto_seal
         /\ space'.flight.sent = {} /\ space'.flight.lost = <<>>
         /\ space'.crypto_stream.send = <<>>]_vars

C8_Witness ==
    /\ op = "clear"
    /\ space.next_pkt_num = 2 /\ space.largest_rx_pkt_num = 1
    /\ space.do_ack /\ space.crypto_seal.some
    /\ space.flight = InFlightDefault /\ space.crypto_stream.send = <<>>

=============================================================================
